---- MODULE Spec2Model ----
(***************************************************************************)
(* AnonChat: the room lifecycle and access-control engine.                 *)
(*                                                                         *)
(* The store is the Redis database the handlers talk to; every awaited     *)
(* Redis command or realtime emit is one atomic step, and the requests of  *)
(* different callers interleave between those steps.                       *)
(*   proxy (src/unnamed/part_004)            : Admit                       *)
(*   authMiddlware.derive (auth.ts)          : Validate                    *)
(*   rooms / messages routes (route.ts)      : CreateRoom, RemainingTtl,   *)
(*                                             DestroyRoom, PostMessage,   *)
(*                                             FetchMessages               *)
(***************************************************************************)
EXTENDS Integers, Sequences, FiniteSets, TLC

\* ------------------------------------------------------------- constants

\* const roomTtlSec = 60 * 10
roomTtlSec == 600

\* if (meta.connected.length >= 2) ... room-full
MAX_MEMBERS == 2

\* z.string().max(100) / z.string().max(1000)
MAX_SENDER_LENGTH == 100
MAX_TEXT_LENGTH == 1000

\* --------------------------------------------------------------- bounds

\* what the environment does in all: requests that are let in (past the
\* checks that come before a handler's work) and clock ticks
MaxEvents == 2
\* seconds that pass with one clock tick: TickStep, or a room's whole lifetime
TickStep == 300

\* concurrent callers (request slots) and the ids nanoid() hands to rooms
Clients == {1, 2}
RoomIds == {1, 2}
\* a request without ?roomId= / without the x-auth-token cookie
NoRoom == 0
NoToken == 0
\* nanoid() values that serve as access tokens
Tokens == 1..(MAX_MEMBERS + MaxEvents)

\* request bodies of POST /api/messages, by the lengths zod looks at
Senders == {5, 101}
Texts == {2, 1001}

\* Redis key kinds per room: meta:{id}, messages:{id}, history:{id}, {id}
Kinds == {"meta", "messages", "history", "room"}
Keys == Kinds \X RoomIds
\* Redis TTL replies: -2 no such key, -1 key without expiry
Absent == -2
NoExpiry == -1

VARIABLES
    ttl,        \* [Keys -> Int]: Absent, NoExpiry or the remaining seconds
    meta,       \* [RoomIds -> hash meta:{id}]: connected, createdAt
    messages,   \* [RoomIds -> list messages:{id}]
    events,     \* what realtime.channel(room).emit published, in order
    now,        \* the clock, in seconds
    allocated,  \* room ids nanoid() has produced
    nextToken,  \* tokens minted so far
    nextMsg,    \* message ids minted so far
    spent,      \* events so far that count against MaxEvents
    issued,     \* [RoomIds -> tokens the proxy has returned in a cookie]
    pc,         \* [Clients -> position of the caller's request]
    req,        \* [Clients -> locals of the request in flight]
    out         \* the response the last step sent, if it sent one

vars == <<ttl, meta, messages, events, now, allocated, nextToken, nextMsg,
          spent, issued, pc, req, out>>

store == <<ttl, meta, messages>>

\* ---------------------------------------------------------- Redis store

NoMeta == [connected |-> <<>>, createdAt |-> 0]

Exists(t, k) == t[k] # Absent

\* EXPIRE key seconds: no such key: nothing; seconds <= 0: the key is
\* deleted; otherwise the key's remaining lifetime becomes seconds.
Expire(t, k, secs) ==
    IF ~Exists(t, k) THEN t
    ELSE IF secs <= 0 THEN [t EXCEPT ![k] = Absent]
    ELSE [t EXCEPT ![k] = secs]

\* DEL key
Del(t, k) == [t EXCEPT ![k] = Absent]

\* a write that creates the key when it is missing (HSET, RPUSH): a new key
\* has no expiry, an existing key keeps its own
Touch(t, k) == IF Exists(t, k) THEN t ELSE [t EXCEPT ![k] = NoExpiry]

\* the values of the keys that are gone
MetaOf(t, m) == [r \in RoomIds |-> IF Exists(t, <<"meta", r>>) THEN m[r] ELSE NoMeta]
MsgsOf(t, l) == [r \in RoomIds |-> IF Exists(t, <<"messages", r>>) THEN l[r] ELSE <<>>]

Includes(seq, x) == \E i \in 1..Len(seq) : seq[i] = x

\* ------------------------------------------------------------- requests

Idle == [op |-> "none", roomId |-> NoRoom, token |-> NoToken,
         connected |-> <<>>, createdAt |-> 0, remaining |-> 0,
         pending |-> {}, msg |-> 0]

NoOut == [code |-> "none", val |-> 0]

\* room ids a caller can name: those a create request has returned, and ids
\* no room has (never created)
Known == allocated \ {req[c].roomId : c \in {d \in Clients : pc[d] = "create_expire"}}
Nameable == Known \cup (RoomIds \ allocated)

\* tokens a caller can present: one some admission has returned, or none
Presentable == {NoToken} \cup UNION {issued[r] : r \in RoomIds}

\* the request in slot c ends with a response
Finish(c, code, val) ==
    /\ out' = [code |-> code, val |-> val]
    /\ pc' = [pc EXCEPT ![c] = "idle"]
    /\ req' = [req EXCEPT ![c] = Idle]

\* a response leaves the server before the next step is taken
Ready == out = NoOut

\* a new request is served in the lowest free slot
Free(c) == Ready /\ pc[c] = "idle" /\ \A d \in Clients : pc[d] = "idle" => c <= d

\* the request in slot c has reached label
At(c, label) == Ready /\ pc[c] = label

\* one more event of those MaxEvents bounds
Spend ==
    /\ spent < MaxEvents
    /\ spent' = spent + 1

Goto(c, label, r) ==
    /\ out' = NoOut
    /\ pc' = [pc EXCEPT ![c] = label]
    /\ req' = [req EXCEPT ![c] = r]

\* The store a server instance starts against: empty, or holding room 1 as
\* POST /api/room/create and then n admissions through the proxy, one after
\* the other, leave it.
EmptyStore ==
    /\ ttl = [k \in Keys |-> Absent]
    /\ meta = [r \in RoomIds |-> NoMeta]
    /\ allocated = {}
    /\ nextToken = 0
    /\ issued = [r \in RoomIds |-> {}]

OneRoom(n) ==
    /\ ttl = [k \in Keys |-> IF k = <<"meta", 1>> THEN roomTtlSec ELSE Absent]
    /\ meta = [r \in RoomIds |-> IF r = 1
                                 THEN [connected |-> [i \in 1..n |-> i], createdAt |-> 0]
                                 ELSE NoMeta]
    /\ allocated = {1}
    /\ nextToken = n
    /\ issued = [r \in RoomIds |-> IF r = 1 THEN 1..n ELSE {}]

Init ==
    /\ EmptyStore \/ \E n \in 0..MAX_MEMBERS : OneRoom(n)
    /\ messages = [r \in RoomIds |-> <<>>]
    /\ events = <<>>
    /\ now = 0
    /\ nextMsg = 0
    /\ spent = 0
    /\ pc = [c \in Clients |-> "idle"]
    /\ req = [c \in Clients |-> Idle]
    /\ out = NoOut

\* ------------------------------------------------- POST /api/room/create

\* const roomId = nanoid(); await redis.hset(`meta:${roomId}`, {...})
CreateHset(c) ==
    /\ Free(c)
    /\ Spend
    /\ allocated # RoomIds
    /\ LET r == CHOOSE x \in RoomIds \ allocated : \A y \in RoomIds \ allocated : x <= y
       IN /\ allocated' = allocated \cup {r}
          /\ ttl' = Touch(ttl, <<"meta", r>>)
          /\ meta' = [meta EXCEPT ![r] = [connected |-> <<>>, createdAt |-> now]]
          /\ Goto(c, "create_expire", [Idle EXCEPT !.op = "create", !.roomId = r])
    /\ UNCHANGED <<messages, events, now, nextToken, nextMsg, issued>>

\* CreateExpire that returns the room id without having set the expiry
CreateExpire_NoExpire(c) ==
    /\ At(c, "create_expire")
    /\ Finish(c, "ok", req[c].roomId)
    /\ UNCHANGED <<ttl, meta, messages, events, now, allocated, nextToken, nextMsg, spent,
                   issued>>

\* await redis.expire(`meta:${roomId}`, roomTtlSec); return { roomId }
CreateExpire(c) ==
    /\ At(c, "create_expire")
    /\ ttl' = Expire(ttl, <<"meta", req[c].roomId>>, roomTtlSec)
    /\ meta' = MetaOf(ttl', meta)
    /\ Finish(c, "ok", req[c].roomId)
    /\ UNCHANGED <<messages, events, now, allocated, nextToken, nextMsg, spent, issued>>

\* ------------------------------------------------- proxy: GET /room/{id}

\* AdmitDecision with the capacity test off by one (> for >=)
AdmitDecision_OffByOne(present, connected, tok) ==
    IF ~present THEN "room-not-found"
    ELSE IF tok # NoToken /\ Includes(connected, tok) THEN "next"
    ELSE IF Len(connected) > MAX_MEMBERS THEN "room-full"
    ELSE "mint"

\* AdmitDecision with the capacity test ahead of the test for a returning member
AdmitDecision_CapacityFirst(present, connected, tok) ==
    IF ~present THEN "room-not-found"
    ELSE IF Len(connected) >= MAX_MEMBERS THEN "room-full"
    ELSE IF tok # NoToken /\ Includes(connected, tok) THEN "next"
    ELSE "mint"

\* AdmitDecision reporting a full room as a missing one
AdmitDecision_FullAsNotFound(present, connected, tok) ==
    IF ~present THEN "room-not-found"
    ELSE IF tok # NoToken /\ Includes(connected, tok) THEN "next"
    ELSE IF Len(connected) >= MAX_MEMBERS THEN "room-not-found"
    ELSE "mint"

\* what the proxy decides on the metadata it has read:
\*   if (!meta) -> room-not-found
\*   if (existingToken && meta.connected.includes(existingToken)) -> next()
\*   if (meta.connected.length >= 2) -> room-full
\*   otherwise the caller is let in with a new token
AdmitDecision(present, connected, tok) ==
    IF ~present THEN "room-not-found"
    ELSE IF tok # NoToken /\ Includes(connected, tok) THEN "next"
    ELSE IF Len(connected) >= MAX_MEMBERS THEN "room-full"
    ELSE "mint"

\* const meta = await redis.hgetall(`meta:${roomId}`) and the checks on it;
\* const token = nanoid() for a caller that is let in as a new member
AdmitRead(c, r, tok) ==
    /\ Free(c)
    /\ r \in Nameable
    /\ tok \in Presentable
    /\ LET d == AdmitDecision(Exists(ttl, <<"meta", r>>), meta[r].connected, tok)
       IN IF d # "mint"
       THEN /\ Finish(c, d, IF d = "next" THEN tok ELSE 0)
            /\ UNCHANGED <<nextToken, spent>>
       ELSE /\ Spend
            /\ nextToken' = nextToken + 1
            /\ Goto(c, "admit_hset",
                    [Idle EXCEPT !.op = "admit", !.roomId = r,
                                 !.token = nextToken + 1,
                                 !.connected = meta[r].connected,
                                 !.createdAt = meta[r].createdAt])
    /\ UNCHANGED <<ttl, meta, messages, events, now, allocated, nextMsg, issued>>

\* AdmitHset that stamps the metadata with the time of the admission
AdmitHset_StampNow(c) ==
    /\ At(c, "admit_hset")
    /\ LET r == req[c].roomId
       IN /\ ttl' = Touch(ttl, <<"meta", r>>)
          /\ meta' = [meta EXCEPT ![r] =
                        [connected |-> Append(req[c].connected, req[c].token),
                         createdAt |-> now]]
          /\ issued' = [issued EXCEPT ![r] = @ \cup {req[c].token}]
          /\ Finish(c, "admitted", req[c].token)
    /\ UNCHANGED <<messages, events, now, allocated, nextToken, nextMsg, spent>>

\* await redis.hset(`meta:${roomId}`, { connected: [...meta.connected, token],
\* createdAt: meta.createdAt }); return response (with the cookie set)
AdmitHset(c) ==
    /\ At(c, "admit_hset")
    /\ LET r == req[c].roomId
       IN /\ ttl' = Touch(ttl, <<"meta", r>>)
          /\ meta' = [meta EXCEPT ![r] =
                        [connected |-> Append(req[c].connected, req[c].token),
                         createdAt |-> req[c].createdAt]]
          /\ issued' = [issued EXCEPT ![r] = @ \cup {req[c].token}]
          /\ Finish(c, "admitted", req[c].token)
    /\ UNCHANGED <<messages, events, now, allocated, nextToken, nextMsg, spent>>

\* --------------------------------------------------- authMiddlware.derive

\* Authorized without the membership test: any token passes for a room that exists
Authorized_AnyToken(r, tok) ==
    /\ r # NoRoom
    /\ tok # NoToken
    /\ Exists(ttl, <<"meta", r>>)

\* Authorized that looks the token up in every room's list, not the named room's
Authorized_AnyRoom(r, tok) ==
    /\ r # NoRoom
    /\ tok # NoToken
    /\ \E q \in RoomIds : Exists(ttl, <<"meta", q>>) /\ Includes(meta[q].connected, tok)

\* if (!roomId || !token) throw; connected = hget(meta, "connected");
\* if (!connected?.includes(token)) throw
Authorized(r, tok) ==
    /\ r # NoRoom
    /\ tok # NoToken
    /\ Exists(ttl, <<"meta", r>>)
    /\ Includes(meta[r].connected, tok)

\* return { auth: { roomId, token, connected } }
Auth(op, r, tok) ==
    [Idle EXCEPT !.op = op, !.roomId = r, !.token = tok,
                 !.connected = meta[r].connected]

\* Derive that answers 401 to a bad token and runs the handler all the same
Derive_NoThrow(c, op, r, tok, label) ==
    /\ Free(c)
    /\ r \in Nameable
    /\ tok \in Presentable
    /\ Spend
    /\ pc' = [pc EXCEPT ![c] = label]
    /\ req' = [req EXCEPT ![c] = [Idle EXCEPT !.op = op, !.roomId = r, !.token = tok,
                                             !.connected = meta[r].connected]]
    /\ out' = IF Authorized(r, tok) THEN NoOut ELSE [code |-> "Unauthorized", val |-> 0]
    /\ UNCHANGED <<ttl, meta, messages, events, now, allocated, nextToken, nextMsg, issued>>

\* the middleware in front of a route: the handler starts at label, or the
\* request ends with 401
Derive(c, op, r, tok, label) ==
    /\ Free(c)
    /\ IF Authorized(r, tok)
       THEN Goto(c, label, Auth(op, r, tok)) /\ Spend
       ELSE Finish(c, "Unauthorized", 0) /\ UNCHANGED spent
    /\ r \in Nameable \cup {NoRoom}
    /\ tok \in Presentable
    /\ UNCHANGED <<ttl, meta, messages, events, now, allocated, nextToken, nextMsg, issued>>

\* ------------------------------------------------------ GET /api/room/ttl

TtlDerive(c, r, tok) == Derive(c, "ttl", r, tok, "ttl_read")

\* TtlRead that returns the reply of redis.ttl as it is
TtlRead_Raw(c) ==
    /\ At(c, "ttl_read")
    /\ Finish(c, "ok", ttl[<<"meta", req[c].roomId>>])
    /\ UNCHANGED <<ttl, meta, messages, events, now, allocated, nextToken, nextMsg,
                   spent, issued>>

\* const ttl = await redis.ttl(`meta:${auth.roomId}`); return ttl > 0 ? ttl : 0
TtlRead(c) ==
    /\ At(c, "ttl_read")
    /\ LET t == ttl[<<"meta", req[c].roomId>>]
       IN Finish(c, "ok", IF t > 0 THEN t ELSE 0)
    /\ UNCHANGED <<ttl, meta, messages, events, now, allocated, nextToken, nextMsg,
                   spent, issued>>

\* ------------------------------------------------------ DELETE /api/room

DestroyEvent(r) == [type |-> "chat.destroy", room |-> r, data |-> [isDestroyed |-> TRUE]]

DeleteDerive(c, r, tok) == Derive(c, "destroy", r, tok, "delete_emit")

\* DeleteEmit that starts the deletions without having published
DeleteEmit_NoPublish(c) ==
    /\ At(c, "delete_emit")
    /\ Goto(c, "delete_del", [req[c] EXCEPT !.pending = {"room", "meta", "messages"}])
    /\ UNCHANGED <<ttl, meta, messages, events, now, allocated, nextToken, nextMsg, spent,
                   issued>>

\* await realtime.channel(auth.roomId).emit("chat.destroy", { isDestroyed: true })
DeleteEmit(c) ==
    /\ At(c, "delete_emit")
    /\ events' = Append(events, DestroyEvent(req[c].roomId))
    /\ Goto(c, "delete_del", [req[c] EXCEPT !.pending = {"room", "meta", "messages"}])
    /\ UNCHANGED <<ttl, meta, messages, now, allocated, nextToken, nextMsg, spent, issued>>

\* DeleteDel that ends the request with an error when the key is not there
DeleteDel_FailsWhenGone(c, kind) ==
    /\ At(c, "delete_del")
    /\ kind \in req[c].pending
    /\ ttl' = Del(ttl, <<kind, req[c].roomId>>)
    /\ meta' = MetaOf(ttl', meta)
    /\ messages' = MsgsOf(ttl', messages)
    /\ IF ~Exists(ttl, <<kind, req[c].roomId>>)
       THEN Finish(c, "Room does not exist", 0)
       ELSE IF req[c].pending = {kind}
       THEN Finish(c, "ok", 0)
       ELSE Goto(c, "delete_del", [req[c] EXCEPT !.pending = @ \ {kind}])
    /\ UNCHANGED <<events, now, allocated, nextToken, nextMsg, spent, issued>>

\* DeleteDel whose command removes the keys of that kind of every room
DeleteDel_EveryRoom(c, kind) ==
    /\ At(c, "delete_del")
    /\ kind \in req[c].pending
    /\ ttl' = [k \in Keys |-> IF k[1] = kind THEN Absent ELSE ttl[k]]
    /\ meta' = MetaOf(ttl', meta)
    /\ messages' = MsgsOf(ttl', messages)
    /\ IF req[c].pending = {kind}
       THEN Finish(c, "ok", 0)
       ELSE Goto(c, "delete_del", [req[c] EXCEPT !.pending = @ \ {kind}])
    /\ UNCHANGED <<events, now, allocated, nextToken, nextMsg, spent, issued>>

\* await Promise.all([redis.del(roomId), redis.del(`meta:...`), redis.del(`messages:...`)])
\* the three commands are in flight together and land in any order
DeleteDel(c, kind) ==
    /\ At(c, "delete_del")
    /\ kind \in req[c].pending
    /\ ttl' = Del(ttl, <<kind, req[c].roomId>>)
    /\ meta' = MetaOf(ttl', meta)
    /\ messages' = MsgsOf(ttl', messages)
    /\ IF req[c].pending = {kind}
       THEN Finish(c, "ok", 0)
       ELSE Goto(c, "delete_del", [req[c] EXCEPT !.pending = @ \ {kind}])
    /\ UNCHANGED <<events, now, allocated, nextToken, nextMsg, spent, issued>>

\* ------------------------------------------------------ POST /api/messages

\* const message: Message = { id: nanoid(), sender, text, timestamp: Date.now(), roomId }
Message(id, sender, text, r) ==
    [id |-> id, sender |-> sender, text |-> text, timestamp |-> now, roomId |-> r]

\* { ...message, token: auth.token }
Stored(m, tok) ==
    [id |-> m.id, sender |-> m.sender, text |-> m.text, timestamp |-> m.timestamp,
     roomId |-> m.roomId, token |-> tok]

MessageEvent(r, m) == [type |-> "chat.message", room |-> r, data |-> m]

\* ValidBody that lets one more character through
ValidBody_OffByOne(sender, text) ==
    sender <= MAX_SENDER_LENGTH + 1 /\ text <= MAX_TEXT_LENGTH + 1

\* body: z.object({ sender: z.string().max(100), text: z.string().max(1000) })
ValidBody(sender, text) == sender <= MAX_SENDER_LENGTH /\ text <= MAX_TEXT_LENGTH

\* PostDerive without the middleware: every post with a valid body reaches the handler
PostDerive_NoAuth(c, r, tok, sender, text) ==
    /\ Free(c)
    /\ sender \in Senders
    /\ text \in Texts
    /\ r \in Nameable
    /\ tok \in Presentable
    /\ IF ~ValidBody(sender, text)
       THEN Finish(c, "ValidationError", 0) /\ UNCHANGED spent
       ELSE Goto(c, "post_exists",
                 [Auth("post", r, tok) EXCEPT !.msg = [sender |-> sender, text |-> text]])
            /\ Spend
    /\ UNCHANGED <<ttl, meta, messages, events, now, allocated, nextToken, nextMsg, issued>>

\* derive runs before the body is validated; the handler runs after both
PostDerive(c, r, tok, sender, text) ==
    /\ Free(c)
    /\ sender \in Senders
    /\ text \in Texts
    /\ IF ~Authorized(r, tok)
       THEN Finish(c, "Unauthorized", 0) /\ UNCHANGED spent
       ELSE IF ~ValidBody(sender, text)
       THEN Finish(c, "ValidationError", 0) /\ UNCHANGED spent
       ELSE Goto(c, "post_exists",
                 [Auth("post", r, tok) EXCEPT !.msg = [sender |-> sender, text |-> text]])
            /\ Spend
    /\ r \in Nameable \cup {NoRoom}
    /\ tok \in Presentable
    /\ UNCHANGED <<ttl, meta, messages, events, now, allocated, nextToken, nextMsg, issued>>

\* const roomExists = await redis.exists(`meta:${roomId}`);
\* if (!roomExists) throw new Error("Room does not exist"); const message = {...}
PostExists(c) ==
    /\ At(c, "post_exists")
    /\ IF ~Exists(ttl, <<"meta", req[c].roomId>>)
       THEN /\ Finish(c, "Room does not exist", 0)
            /\ UNCHANGED nextMsg
       ELSE /\ nextMsg' = nextMsg + 1
            /\ Goto(c, "post_rpush",
                    [req[c] EXCEPT !.msg = Message(nextMsg + 1, req[c].msg.sender,
                                                   req[c].msg.text, req[c].roomId)])
    /\ UNCHANGED <<ttl, meta, messages, events, now, allocated, nextToken, spent, issued>>

\* PostRpush that goes on to publish without having appended
PostRpush_NoAppend(c) ==
    /\ At(c, "post_rpush")
    /\ Goto(c, "post_emit", req[c])
    /\ UNCHANGED <<ttl, meta, messages, events, now, allocated, nextToken, nextMsg, spent,
                   issued>>

\* PostRpush that writes the list anew with its message alone
PostRpush_Overwrite(c) ==
    /\ At(c, "post_rpush")
    /\ LET r == req[c].roomId
       IN /\ ttl' = Touch(ttl, <<"messages", r>>)
          /\ messages' = [messages EXCEPT ![r] = <<Stored(req[c].msg, req[c].token)>>]
    /\ Goto(c, "post_emit", req[c])
    /\ UNCHANGED <<meta, events, now, allocated, nextToken, nextMsg, spent, issued>>

\* PostRpush that puts the message at the head of the list
PostRpush_Lpush(c) ==
    /\ At(c, "post_rpush")
    /\ LET r == req[c].roomId
       IN /\ ttl' = Touch(ttl, <<"messages", r>>)
          /\ messages' = [messages EXCEPT ![r] = <<Stored(req[c].msg, req[c].token)>> \o @]
    /\ Goto(c, "post_emit", req[c])
    /\ UNCHANGED <<meta, events, now, allocated, nextToken, nextMsg, spent, issued>>

\* await redis.rpush(`messages:${roomId}`, { ...message, token: auth.token })
PostRpush(c) ==
    /\ At(c, "post_rpush")
    /\ LET r == req[c].roomId
       IN /\ ttl' = Touch(ttl, <<"messages", r>>)
          /\ messages' = [messages EXCEPT ![r] = Append(@, Stored(req[c].msg, req[c].token))]
    /\ Goto(c, "post_emit", req[c])
    /\ UNCHANGED <<meta, events, now, allocated, nextToken, nextMsg, spent, issued>>

\* PostEmit that publishes the stored copy, token included
PostEmit_WithToken(c) ==
    /\ At(c, "post_emit")
    /\ events' = Append(events, MessageEvent(req[c].roomId, Stored(req[c].msg, req[c].token)))
    /\ Goto(c, "post_ttl", req[c])
    /\ UNCHANGED <<ttl, meta, messages, now, allocated, nextToken, nextMsg, spent, issued>>

\* await realtime.channel(roomId).emit("chat.message", message)
PostEmit(c) ==
    /\ At(c, "post_emit")
    /\ events' = Append(events, MessageEvent(req[c].roomId, req[c].msg))
    /\ Goto(c, "post_ttl", req[c])
    /\ UNCHANGED <<ttl, meta, messages, now, allocated, nextToken, nextMsg, spent, issued>>

\* const remaining = await redis.ttl(`meta:${roomId}`)
PostTtl(c) ==
    /\ At(c, "post_ttl")
    /\ Goto(c, "post_expire_messages",
            [req[c] EXCEPT !.remaining = ttl[<<"meta", req[c].roomId>>]])
    /\ UNCHANGED <<ttl, meta, messages, events, now, allocated, nextToken, nextMsg,
                   spent, issued>>

\* await redis.expire(key, remaining), for one of the three keys in turn
PostExpire(c, kind) ==
    /\ ttl' = Expire(ttl, <<kind, req[c].roomId>>, req[c].remaining)
    /\ meta' = MetaOf(ttl', meta)
    /\ messages' = MsgsOf(ttl', messages)
    /\ UNCHANGED <<events, now, allocated, nextToken, nextMsg, spent, issued>>

\* await redis.expire(`messages:${roomId}`, remaining)
PostExpireMessages(c) ==
    /\ At(c, "post_expire_messages")
    /\ PostExpire(c, "messages")
    /\ Goto(c, "post_expire_history", req[c])

\* await redis.expire(`history:${roomId}`, remaining)
PostExpireHistory(c) ==
    /\ At(c, "post_expire_history")
    /\ PostExpire(c, "history")
    /\ Goto(c, "post_expire_room", req[c])

\* await redis.expire(roomId, remaining)
PostExpireRoom(c) ==
    /\ At(c, "post_expire_room")
    /\ PostExpire(c, "room")
    /\ Finish(c, "ok", 0)

\* ------------------------------------------------------- GET /api/messages

FetchDerive(c, r, tok) == Derive(c, "fetch", r, tok, "fetch_lrange")

\* Redact that returns the stored message as it is
Redact_Keep(m, tok) == m

\* token: message.token === auth.token ? message.token : undefined
Redact(m, tok) == [m EXCEPT !.token = IF m.token = tok THEN m.token ELSE NoToken]

\* const messages = await redis.lrange(`messages:${auth.roomId}`, 0, -1);
\* return { messages: messages.map(...) }
FetchLrange(c) ==
    /\ At(c, "fetch_lrange")
    /\ LET l == messages[req[c].roomId]
       IN Finish(c, "messages",
                 [i \in 1..Len(l) |-> Redact(l[i], req[c].token)])
    /\ UNCHANGED <<ttl, meta, messages, events, now, allocated, nextToken, nextMsg,
                   spent, issued>>

\* ------------------------------------------------------------------ time

\* d seconds pass: Redis counts every expiry down and removes the keys whose
\* time is up
Elapse(t, d) ==
    [k \in Keys |-> IF t[k] > 0
                    THEN (IF t[k] - d > 0 THEN t[k] - d ELSE Absent)
                    ELSE t[k]]

Tick(d) ==
    /\ Ready
    /\ Spend
    /\ now' = now + d
    /\ ttl' = Elapse(ttl, d)
    /\ meta' = MetaOf(ttl', meta)
    /\ messages' = MsgsOf(ttl', messages)
    /\ out' = NoOut
    /\ UNCHANGED <<events, allocated, nextToken, nextMsg, issued, pc, req>>

\* ----------------------------------------------------------- the system

\* the response of the last step leaves the server
Deliver ==
    /\ out # NoOut
    /\ out' = NoOut
    /\ UNCHANGED <<ttl, meta, messages, events, now, allocated, nextToken, nextMsg,
                   spent, issued, pc, req>>

Next ==
    \/ \E c \in Clients : CreateHset(c)
    \/ \E c \in Clients : CreateExpire(c)
    \/ \E c \in Clients, r \in Nameable, tok \in Presentable : AdmitRead(c, r, tok)
    \/ \E c \in Clients : AdmitHset(c)
    \/ \E c \in Clients, r \in Nameable \cup {NoRoom}, tok \in Presentable :
            TtlDerive(c, r, tok)
    \/ \E c \in Clients : TtlRead(c)
    \/ \E c \in Clients, r \in Nameable \cup {NoRoom}, tok \in Presentable :
            DeleteDerive(c, r, tok)
    \/ \E c \in Clients : DeleteEmit(c)
    \/ \E c \in Clients, kind \in Kinds : DeleteDel(c, kind)
    \/ \E c \in Clients, r \in Nameable \cup {NoRoom}, tok \in Presentable,
          sender \in Senders, text \in Texts : PostDerive(c, r, tok, sender, text)
    \/ \E c \in Clients : PostExists(c)
    \/ \E c \in Clients : PostRpush(c)
    \/ \E c \in Clients : PostEmit(c)
    \/ \E c \in Clients : PostTtl(c)
    \/ \E c \in Clients : PostExpireMessages(c)
    \/ \E c \in Clients : PostExpireHistory(c)
    \/ \E c \in Clients : PostExpireRoom(c)
    \/ \E c \in Clients, r \in Nameable \cup {NoRoom}, tok \in Presentable :
            FetchDerive(c, r, tok)
    \/ \E c \in Clients : FetchLrange(c)
    \/ \E d \in {TickStep, roomTtlSec} : Tick(d)
    \/ Deliver

Spec == Init /\ [][Next]_vars

\* requests one after the other: while a request is in flight, no other request
\* is taken up (time still passes)
OneAtATime ==
    (\E d \in Clients : pc[d] # "idle")
        => \/ \E d \in Clients : pc[d] # "idle" /\ (pc'[d] # pc[d] \/ req'[d] # req[d])
           \/ now' # now
           \/ out # NoOut

NextSeq == Next /\ OneAtATime

SpecSeq == Init /\ [][NextSeq]_vars

\* The store with room 1 as an admission leaves it whose hset lands after the
\* room's metadata has expired: the hash is created anew from the snapshot the
\* proxy read, and nothing puts an expiry on it.
RevivedRoom ==
    /\ ttl = [k \in Keys |-> IF k = <<"meta", 1>> THEN NoExpiry ELSE Absent]
    /\ meta = [r \in RoomIds |-> IF r = 1
                                 THEN [connected |-> <<1, 2>>, createdAt |-> 0]
                                 ELSE NoMeta]
    /\ allocated = {1}
    /\ nextToken = 2
    /\ issued = [r \in RoomIds |-> IF r = 1 THEN {1, 2} ELSE {}]

InitRevived ==
    /\ RevivedRoom
    /\ messages = [r \in RoomIds |-> <<>>]
    /\ events = <<>>
    /\ now = 0
    /\ nextMsg = 0
    /\ spent = 0
    /\ pc = [c \in Clients |-> "idle"]
    /\ req = [c \in Clients |-> Idle]
    /\ out = NoOut

SpecRevived == InitRevived /\ [][Next]_vars

\* ---------------------------------------------------------------- claims

MetaExists(r) == Exists(ttl, <<"meta", r>>)
MessagesExist(r) == Exists(ttl, <<"messages", r>>)
Member(r, tok) == MetaExists(r) /\ \E i \in 1..Len(meta[r].connected) : meta[r].connected[i] = tok

\* what a request can carry as roomId and token
Inputs == (Nameable \cup {NoRoom}) \X Presentable

\* the first step of a request to one of the routes behind the middleware
GatedStart(c, r, tok) ==
    \/ TtlDerive(c, r, tok)
    \/ DeleteDerive(c, r, tok)
    \/ FetchDerive(c, r, tok)
    \/ \E sender \in Senders, text \in Texts : PostDerive(c, r, tok, sender, text)

\* C1: in every reachable state the stored list `connected` of every room holds
\* at most MAX_MEMBERS tokens, whatever the interleaving of the requests.
C1_ConnectedAtMostMax ==
    \A r \in RoomIds : Len(meta[r].connected) <= MAX_MEMBERS

\* C1 witness: admissions have raced on a room (more tokens handed out than
\* the room holds) and the stored list is at its limit.
C1_Witness ==
    \E r \in RoomIds : /\ Len(meta[r].connected) = MAX_MEMBERS
                       /\ Cardinality(issued[r]) > MAX_MEMBERS

\* C2: over the life of a room at most MAX_MEMBERS admissions return a newly
\* minted token to a caller.
C2_AtMostMaxAdmissions ==
    \A r \in RoomIds : Cardinality(issued[r]) <= MAX_MEMBERS

\* C3: a token an admission has returned stays in the room's `connected` list
\* for as long as the room exists.
C3_AdmittedStaysMember ==
    \A r \in RoomIds : MetaExists(r) => \A t \in issued[r] : Member(r, t)

\* C4: an admission request that presents a token already in the room's list
\* is let through with that token; nothing is minted and nothing is written,
\* also when the room is full.
C4_AdmitIdempotent ==
    [][\A c \in Clients, r \in RoomIds, tok \in Tokens :
          (AdmitRead(c, r, tok) /\ Member(r, tok))
              => /\ out' = [code |-> "next", val |-> tok]
                 /\ pc'[c] = "idle"
                 /\ UNCHANGED <<ttl, meta, messages, events, nextToken, issued>>]_vars

\* C4 witness: a member of a full room has come back and was let through.
C4_Witness ==
    /\ out.code = "next"
    /\ \E r \in RoomIds : Member(r, out.val) /\ Len(meta[r].connected) = MAX_MEMBERS

\* C5: with the requests one after the other, a room never hands out more than
\* MAX_MEMBERS tokens: an admission by a non-member is let in while the list is
\* short of MAX_MEMBERS, and is answered room-full (not room-not-found), with
\* nothing minted and nothing written, once the list is full.
C5_SequentialCapacity ==
    /\ [](\A r \in RoomIds : Cardinality(issued[r]) <= MAX_MEMBERS)
    /\ [][\A c \in Clients, r \in RoomIds, tok \in Tokens \cup {NoToken} :
            (AdmitRead(c, r, tok) /\ MetaExists(r) /\ ~Member(r, tok))
                => IF Len(meta[r].connected) >= MAX_MEMBERS
                   THEN /\ out' = [code |-> "room-full", val |-> 0]
                        /\ pc'[c] = "idle"
                        /\ UNCHANGED <<ttl, meta, messages, events, nextToken, issued>>
                   ELSE /\ pc'[c] = "admit_hset"
                        /\ req'[c].token \notin UNION {issued[q] : q \in RoomIds}]_vars

\* C5 witness: a room holds MAX_MEMBERS tokens, all it ever handed out, and a
\* further caller has just been answered room-full.
C5_Witness ==
    /\ out.code = "room-full"
    /\ \E r \in RoomIds : /\ Len(meta[r].connected) = MAX_MEMBERS
                          /\ Cardinality(issued[r]) = MAX_MEMBERS

\* C6: no admission writes the metadata of a room whose metadata key is absent
\* at the time of the write.
C6_NoWriteToAbsentRoom ==
    [][\A c \in Clients : AdmitHset(c) => MetaExists(req[c].roomId)]_vars

\* destroy requests for room r that have completed: each publishes once, then
\* deletes, then returns
DestroyEvents(r) == Cardinality({i \in 1..Len(events) : events[i] = DestroyEvent(r)})
Deleting(r) == {c \in Clients : pc[c] = "delete_del" /\ req[c].roomId = r}
DestroyCompleted(r) == DestroyEvents(r) > Cardinality(Deleting(r))

\* C7: once a destroy request for a room has succeeded, the room's metadata and
\* message keys are absent in every later state (so no token validates).
C7_DestroyedStaysGone ==
    \A r \in RoomIds : DestroyCompleted(r) => ~MetaExists(r) /\ ~MessagesExist(r)

\* C8: a destroy request publishes chat.destroy before it deletes anything: it
\* leaves the publish step by publishing and with every key as it was, and
\* whenever requests are deleting keys of a room, as many events of that room
\* have been published.
C8_PublishBeforeDelete ==
    /\ [](\A r \in RoomIds : Cardinality(Deleting(r)) <= DestroyEvents(r))
    /\ [][\A c \in Clients :
            (pc[c] = "delete_emit" /\ pc'[c] # "delete_emit")
                => /\ events' = Append(events, DestroyEvent(req[c].roomId))
                   /\ UNCHANGED <<ttl, meta, messages>>]_vars

\* C8 witness: a destroy request has published and has begun to delete.
C8_Witness ==
    \E c \in Clients : /\ pc[c] = "delete_del"
                       /\ req[c].pending # {"room", "meta", "messages"}
                       /\ DestroyEvents(req[c].roomId) = 1

\* C9: the middleware answers Unauthorized unless roomId and token are both
\* present and the token is in the room's `connected` list when it is read (so
\* always for an absent room); when it lets the request on, auth holds that
\* room, that token and the list as it then is.
C9_Validate ==
    [][\A c \in {d \in Clients : Free(d)}, in \in Inputs :
          \/ IF in[1] # NoRoom /\ in[2] # NoToken /\ Member(in[1], in[2])
             THEN /\ pc'[c] # "idle" \/ out'.code = "ValidationError"
                  /\ pc'[c] # "idle" =>
                       /\ req'[c].roomId = in[1]
                       /\ req'[c].token = in[2]
                       /\ req'[c].connected = meta[in[1]].connected
             ELSE /\ out'.code = "Unauthorized"
                  /\ pc'[c] = "idle"
          \/ ~GatedStart(c, in[1], in[2])]_vars

\* C9 witness: a request has passed the middleware and holds the room's list.
C9_Witness ==
    \E c \in Clients : /\ pc[c] \in {"ttl_read", "delete_emit", "post_exists", "fetch_lrange"}
                       /\ Member(req[c].roomId, req[c].token)
                       /\ req[c].connected = meta[req[c].roomId].connected

\* C10: a request to a route behind the middleware with no token, or with a
\* token that is not in the named room's list, is answered Unauthorized, and
\* leaves every key and the published events as they were.
C10_UnauthorizedNoEffect ==
    [][\/ /\ out'.code = "Unauthorized"
          /\ pc' = pc
          /\ req' = req
          /\ UNCHANGED <<ttl, meta, messages, events, nextToken, nextMsg, issued>>
       \/ \A c \in {d \in Clients : Free(d)}, in \in Inputs :
            \/ in[1] # NoRoom /\ in[2] # NoToken /\ Member(in[1], in[2])
            \/ ~GatedStart(c, in[1], in[2])]_vars

\* C10 witness: a request was answered Unauthorized while a room with members
\* exists.
C10_Witness ==
    /\ out.code = "Unauthorized"
    /\ \E r \in RoomIds : MetaExists(r) /\ Len(meta[r].connected) > 0

\* C11: no token is in the `connected` lists of two different rooms, and a
\* token the proxy returned for one room never passes the middleware's check
\* for another room.
C11_TokenOneRoom ==
    /\ \A r \in RoomIds : \A q \in RoomIds \ {r} : \A i \in 1..Len(meta[r].connected) :
          ~Includes(meta[q].connected, meta[r].connected[i])
    /\ \A r \in RoomIds : \A q \in RoomIds \ {r} : \A t \in issued[r] : ~Authorized(q, t)

\* C11 witness: two rooms exist side by side, each with a member.
C11_Witness ==
    \A r \in RoomIds : MetaExists(r) /\ Len(meta[r].connected) >= 1

\* C12: GET /api/messages returns the stored list in order, every field but
\* the token as stored; a message carries its token exactly when the stored
\* token is the caller's own, and no token otherwise.
C12_FetchRedacts ==
    [][\A c \in Clients :
          FetchLrange(c) =>
              LET l == messages[req[c].roomId]
              IN /\ out'.code = "messages"
                 /\ Len(out'.val) = Len(l)
                 /\ \A i \in 1..Len(l) :
                       /\ out'.val[i].id = l[i].id
                       /\ out'.val[i].sender = l[i].sender
                       /\ out'.val[i].text = l[i].text
                       /\ out'.val[i].timestamp = l[i].timestamp
                       /\ out'.val[i].roomId = l[i].roomId
                       /\ out'.val[i].token =
                            IF l[i].token = req[c].token THEN req[c].token ELSE NoToken]_vars

\* C12 witness: a fetch has returned a message that another member posted,
\* without its token.
C12_Witness ==
    /\ out.code = "messages"
    /\ \E i \in 1..Len(out.val) :
          /\ out.val[i].token = NoToken
          /\ messages[out.val[i].roomId][i].token # NoToken

\* the chat.message events published so far
MessageEvents == {i \in 1..Len(events) : events[i].type = "chat.message"}

\* C13: no chat.message event carries a token field, while every stored
\* message carries the token of the member that posted it.
C13_EventHasNoToken ==
    /\ \A i \in MessageEvents : "token" \notin DOMAIN events[i].data
    /\ \A r \in RoomIds : \A j \in 1..Len(messages[r]) :
          messages[r][j].token \in issued[r]

\* C13 witness: a message has been published, and its stored copy, token
\* included, is in the room's list.
C13_Witness ==
    \E i \in MessageEvents :
        \E j \in 1..Len(messages[events[i].room]) :
            /\ messages[events[i].room][j].id = events[i].data.id
            /\ messages[events[i].room][j].token # NoToken

\* the room is there as POST /api/room/create made it: its metadata exists with
\* the expiry running, and no destroy request has begun on it
Intact(r) == MetaExists(r) /\ ttl[<<"meta", r>>] > 0 /\ DestroyEvents(r) = 0

\* message m, as stored for the member with token tok, is in the list of room r
InList(r, m, tok) == \E j \in 1..Len(messages[r]) : messages[r][j] = Stored(m, tok)

\* C14: POST /api/messages appends before it publishes and publishes before it
\* reads the TTL: when chat.message is published for a message, the message is
\* in the room's list (as long as the room is intact), and when the TTL
\* synchronisation starts, the event has been published.
C14_AppendThenPublish ==
    /\ [][\A c \in Clients :
            PostEmit(c) =>
                (Intact(req[c].roomId) => InList(req[c].roomId, req[c].msg, req[c].token))]_vars
    /\ [][\A c \in Clients :
            PostTtl(c) =>
                \E i \in MessageEvents : events[i] = MessageEvent(req[c].roomId, req[c].msg)]_vars

\* C14 witness: a post has just published its message, which is in the list of
\* an intact room.
C14_Witness ==
    \E c \in Clients :
        /\ pc[c] = "post_ttl"
        /\ Intact(req[c].roomId)
        /\ InList(req[c].roomId, req[c].msg, req[c].token)
        /\ \E i \in MessageEvents : events[i] = MessageEvent(req[c].roomId, req[c].msg)

\* C15: no post appends a message to the list of a room whose metadata key is
\* absent at the moment of the append.
C15_NoAppendToAbsentRoom ==
    [][\A c \in Clients : PostRpush(c) => MetaExists(req[c].roomId)]_vars

\* C16: whenever the message list of a room exists, the room's metadata
\* exists: the list is gone no later than the metadata.
C16_MessagesNeverOutliveRoom ==
    \A r \in RoomIds : MessagesExist(r) => MetaExists(r)

\* C17: when a post completes, the message list of its room has the remaining
\* TTL of the room's metadata, so that the two expire together.
C17_SyncTtlExpireTogether ==
    [][\A c \in Clients :
          PostExpireRoom(c) =>
              ttl'[<<"messages", req[c].roomId>>] = ttl'[<<"meta", req[c].roomId>>]]_vars

\* the list l is the beginning of the list m
Prefix(l, m) == Len(l) <= Len(m) /\ \A j \in 1..Len(l) : m[j] = l[j]

\* C18: while a room exists and no destroy request has begun on it, no step
\* removes or changes a stored message: the list before the step is the
\* beginning of the list after it.
C18_MessagesStay ==
    [][\A r \in RoomIds :
          (MetaExists(r) /\ MetaExists(r)' /\ DestroyEvents(r)' = 0)
              => Prefix(messages[r], messages'[r])]_vars

\* C19: when a destroy request completes, none of the room's keys is in the
\* store: meta:{id}, messages:{id}, history:{id} and {id} are all absent.
C19_DestroyPurgesAll ==
    [][\A c \in Clients, kind \in Kinds :
          (DeleteDel(c, kind) /\ pc'[c] = "idle")
              => \A k \in Kinds : ~Exists(ttl', <<k, req[c].roomId>>)]_vars

\* C20 as stated: a destroy request for a room that an earlier destroy has
\* removed, sent with a token that was admitted to the room, is not answered
\* with a failure.
C20_SecondDestroyNoFailure ==
    [][\A c \in {d \in Clients : Free(d)}, r \in RoomIds :
          (DestroyEvents(r) >= 1 /\ ~MetaExists(r))
              => \A tok \in issued[r] :
                    \/ out'.code # "Unauthorized"
                    \/ ~DeleteDerive(c, r, tok)]_vars

\* C20 amended: the deletion itself is idempotent, the request is not. A
\* redis.del of a key that is absent changes nothing in the store and is no
\* error, so a destroy that is past the middleware completes with success also
\* when the room is already gone; a destroy request that reaches the middleware
\* after the room's metadata is gone is answered Unauthorized and changes no key
\* and publishes no event.
C20_DeleteIdempotent ==
    /\ [][\A c \in Clients, kind \in Kinds :
            DeleteDel(c, kind) =>
                /\ out' = IF req[c].pending = {kind} THEN [code |-> "ok", val |-> 0] ELSE NoOut
                /\ ~Exists(ttl, <<kind, req[c].roomId>>) => UNCHANGED <<ttl, meta, messages>>
                /\ \A k \in Keys : Exists(ttl', k) => Exists(ttl, k)]_vars
    /\ [][\A c \in {d \in Clients : Free(d)}, r \in RoomIds :
            ~MetaExists(r)
                => \A tok \in Presentable :
                      \/ /\ out'.code = "Unauthorized"
                         /\ UNCHANGED <<ttl, meta, messages, events>>
                      \/ ~DeleteDerive(c, r, tok)]_vars

\* C20 witness: two destroy requests for the same room have completed, the
\* second one deleting keys that were gone already, and a further request for
\* the room has been answered Unauthorized.
C20_Witness ==
    /\ out.code = "Unauthorized"
    /\ \E r \in RoomIds : DestroyEvents(r) = 2 /\ Deleting(r) = {} /\ ~MetaExists(r)

Creating(r) == \E c \in Clients : pc[c] = "create_expire" /\ req[c].roomId = r

\* C22: apart from its creation, no step raises the remaining lifetime of a
\* room's metadata: the key neither comes to live longer than before the step
\* nor loses its expiry nor comes back after it was gone.
C22_TtlNeverRaised ==
    [][\A r \in RoomIds :
          (~Creating(r) /\ ~Creating(r)')
              => /\ ttl'[<<"meta", r>>] <= ttl[<<"meta", r>>] \/ ttl'[<<"meta", r>>] = Absent
                 /\ ttl'[<<"meta", r>>] = NoExpiry => ttl[<<"meta", r>>] = NoExpiry]_vars

\* C23: no metadata key is in the store without an expiry, once the create
\* request that wrote it has set the expiry: every room that exists is on its
\* way to expire.
C23_MetaAlwaysExpires ==
    \A r \in RoomIds : (MetaExists(r) /\ ~Creating(r)) => ttl[<<"meta", r>>] > 0

\* C24: chat.destroy is published by a destroy request only; the passing of
\* time publishes nothing; and once a room has expired without a destroy, no
\* token passes the middleware's check for it in any later state.
C24_PassiveExpirySilent ==
    /\ [][events' # events /\ events'[Len(events')].type = "chat.destroy"
            => \E c \in Clients : DeleteEmit(c)]_vars
    /\ [][now' # now => events' = events]_vars
    /\ [][\A r \in allocated :
            (DestroyEvents(r) = 0 /\ ~Creating(r) /\ ~MetaExists(r))
                => \A tok \in Tokens : ~Authorized(r, tok)']_vars

\* C25: a post whose sender is longer than MAX_SENDER_LENGTH or whose text is
\* longer than MAX_TEXT_LENGTH ends at once with an error, a ValidationError
\* when the caller is a member of the room; it appends no message, publishes no
\* event and changes no key or TTL.
C25_OversizedRejected ==
    [][\A c \in {d \in Clients : Free(d)}, in \in Inputs, sender \in Senders, text \in Texts :
          \/ sender <= MAX_SENDER_LENGTH /\ text <= MAX_TEXT_LENGTH
          \/ /\ out'.code = IF in[1] # NoRoom /\ in[2] # NoToken /\ Member(in[1], in[2])
                            THEN "ValidationError" ELSE "Unauthorized"
             /\ pc' = pc
             /\ UNCHANGED <<ttl, meta, messages, events, nextMsg>>
          \/ ~PostDerive(c, in[1], in[2], sender, text)]_vars

\* C25 witness: a member's post with an oversized body has been answered with
\* a ValidationError.
C25_Witness ==
    /\ out.code = "ValidationError"
    /\ \A r \in RoomIds : messages[r] = <<>>
    /\ events = <<>>

OthersUnchanged(r) ==
    /\ \A k \in Keys : k[2] # r => ttl'[k] = ttl[k]
    /\ \A q \in RoomIds \ {r} : meta'[q] = meta[q] /\ messages'[q] = messages[q]

\* C27: a create request takes an id that no room has or had; when it
\* completes it returns that id, and the room's metadata exists with an empty
\* `connected` list, a createdAt no later than now and roomTtlSec seconds to
\* live; neither of its steps changes a key of another room.
C27_CreateRoom ==
    /\ [][\A c \in Clients :
            CreateHset(c) =>
                /\ req'[c].roomId \notin allocated
                /\ ~MetaExists(req'[c].roomId)
                /\ OthersUnchanged(req'[c].roomId)]_vars
    /\ [][\A c \in Clients :
            CreateExpire(c) =>
                LET r == req[c].roomId
                IN /\ out' = [code |-> "ok", val |-> r]
                   /\ Exists(ttl', <<"meta", r>>)
                   /\ meta'[r].connected = <<>>
                   /\ meta'[r].createdAt <= now
                   /\ ttl'[<<"meta", r>>] = roomTtlSec
                   /\ OthersUnchanged(r)]_vars

\* C27 witness: a create request has returned the id of a room that now
\* exists, empty, with roomTtlSec seconds to live, next to an older room.
C27_Witness ==
    /\ out.code = "ok"
    /\ out.val \in RoomIds
    /\ MetaExists(out.val)
    /\ meta[out.val].connected = <<>>
    /\ ttl[<<"meta", out.val>>] = roomTtlSec
    /\ \E q \in RoomIds \ {out.val} : MetaExists(q)

\* C28: createdAt is written by the create request and never changes: no step
\* changes the createdAt of a room that exists, an admission writes back the
\* createdAt it read, and what an admission in flight has read is the
\* createdAt of the room as long as the room exists.
C28_CreatedAtImmutable ==
    /\ [][\A r \in RoomIds :
            (MetaExists(r) /\ Exists(ttl', <<"meta", r>>))
                => meta'[r].createdAt = meta[r].createdAt]_vars
    /\ [][\A c \in Clients :
            AdmitHset(c) => meta'[req[c].roomId].createdAt = req[c].createdAt]_vars
    /\ [](\A c \in Clients :
            (pc[c] = "admit_hset" /\ MetaExists(req[c].roomId))
                => req[c].createdAt = meta[req[c].roomId].createdAt)

\* C28 witness: a room has just taken in its second member, at a time later
\* than its creation.
C28_Witness ==
    /\ out.code = "admitted"
    /\ \E r \in RoomIds :
          /\ MetaExists(r)
          /\ Len(meta[r].connected) = MAX_MEMBERS
          /\ Includes(meta[r].connected, out.val)
          /\ meta[r].createdAt < now

\* C29: the `connected` list of a room that exists changes only when the room's metadata
\* goes away, or when an admission adds its one newly minted token at the end
\* of the list as it is in the store; every other step leaves it as it is.
C29_MembershipFrame ==
    [][\A r \in RoomIds :
          (MetaExists(r) /\ meta'[r].connected # meta[r].connected)
              => \/ ~Exists(ttl', <<"meta", r>>)
                 \/ \E c \in Clients :
                       /\ AdmitHset(c)
                       /\ req[c].roomId = r
                       /\ meta'[r].connected = Append(meta[r].connected, req[c].token)]_vars

\* the positions of a post request after its rpush
AfterPush == {"post_emit", "post_ttl", "post_expire_messages", "post_expire_history",
              "post_expire_room"}

\* C30: posts that run concurrently on an intact room each contribute exactly
\* one message: for every post that has appended, its message is in the
\* room's list, as stored, exactly once, whatever the other posts have done in
\* between; and no message id is in a list twice.
C30_ConcurrentAppends ==
    /\ \A c \in Clients :
          (pc[c] \in AfterPush /\ Intact(req[c].roomId))
              => /\ InList(req[c].roomId, req[c].msg, req[c].token)
                 /\ Cardinality({j \in 1..Len(messages[req[c].roomId]) :
                        messages[req[c].roomId][j].id = req[c].msg.id}) = 1
    /\ \A r \in RoomIds : \A i \in 1..Len(messages[r]) : \A j \in 1..Len(messages[r]) :
          messages[r][i].id = messages[r][j].id => i = j

\* C30 witness: two posts on the same intact room are in flight, both past
\* their rpush, and the list holds the two messages.
C30_Witness ==
    \E r \in RoomIds :
        /\ Intact(r)
        /\ Len(messages[r]) = 2
        /\ \A c \in Clients : pc[c] \in AfterPush /\ req[c].roomId = r

\* C31: chat.destroy is the last event of a room: once it has been published
\* for a room, no chat.message is published for that room, also when a post
\* was in flight while the destroy ran.
C31_DestroyIsLastEvent ==
    \A i \in 1..Len(events), j \in 1..Len(events) :
        (i < j /\ events[i].type = "chat.destroy" /\ events[j].type = "chat.message")
            => events[j].room # events[i].room

\* An awaited call of the post handler that comes after the rpush rejects
\* (the emit, the ttl or one of the three expires: the store or the realtime
\* service is unreachable or times out): the handler has no try/catch, so the
\* rejection leaves it there and the request is answered with an error.
PostThrows(c) ==
    /\ Ready
    /\ pc[c] \in AfterPush
    /\ Finish(c, "Internal Server Error", 0)
    /\ UNCHANGED <<ttl, meta, messages, events, now, allocated, nextToken, nextMsg,
                   spent, issued>>

\* the system with calls of the post handler that can fail
NextFail ==
    \/ Next
    \/ \E c \in Clients : PostThrows(c)

SpecFail == Init /\ [][NextFail]_vars

\* the message list of room r holds the message with this id
HoldsId(l, id) == \E j \in 1..Len(l) : l[j].id = id

\* C32: a post is all-or-nothing with respect to failure: when a post request
\* is answered with a failure (the room does not exist, or a call after the
\* append has failed), the message list of its room holds nothing of that
\* request, so a retry cannot produce a duplicate.
C32_FailedPostLeavesNothing ==
    [][\A c \in Clients :
          (req[c].op = "post" /\ pc'[c] = "idle" /\ out'.code # "ok")
              => IF pc[c] \in AfterPush
                 THEN ~HoldsId(messages'[req[c].roomId], req[c].msg.id)
                 ELSE messages' = messages]_vars

\* the positions of a post request, from the handler's first step on
PostLabels == {"post_exists", "post_rpush"} \cup AfterPush

\* C33: every stored message is attributable. Its roomId field is the room
\* whose list holds it; its token is present, was handed out for that room and
\* for no other; a post reaches the handler only with a token that is in the
\* room's `connected` list at that moment, and what its rpush stores is the
\* message with that room and that token.
C33_StoredIsAttributable ==
    /\ [](\A r \in RoomIds : \A j \in 1..Len(messages[r]) :
            /\ messages[r][j].roomId = r
            /\ messages[r][j].token # NoToken
            /\ messages[r][j].token \in issued[r]
            /\ \A q \in RoomIds \ {r} : messages[r][j].token \notin issued[q])
    /\ [](\A c \in Clients :
            pc[c] \in PostLabels => Includes(req[c].connected, req[c].token))
    /\ [][\A c \in {d \in Clients : Free(d)} :
            pc'[c] = "post_exists"
                => /\ Member(req'[c].roomId, req'[c].token)
                   /\ req'[c].connected = meta[req'[c].roomId].connected]_vars
    /\ [][\A c \in Clients :
            PostRpush(c) =>
                LET r == req[c].roomId
                IN /\ messages'[r] = Append(messages[r], Stored(req[c].msg, req[c].token))
                   /\ req[c].msg.roomId = r
                   /\ \A q \in RoomIds \ {r} : messages'[q] = messages[q]]_vars

\* C33 witness: a room's list holds the messages of two different members.
C33_Witness ==
    \E r \in RoomIds :
        /\ Len(messages[r]) = 2
        /\ messages[r][1].token # messages[r][2].token
        /\ Member(r, messages[r][1].token)
        /\ Member(r, messages[r][2].token)

\* the step publishes nothing, or one event on the channel of room r
PublishesOnlyOn(r) ==
    \/ events' = events
    \/ /\ Len(events') = Len(events) + 1
       /\ Prefix(events, events')
       /\ events'[Len(events')].room = r

\* C34: rooms are isolated. A step of a request (any step but the passing of
\* time) either changes nothing in the store and publishes nothing, or it is a
\* step of a request that names a room r, it leaves the keys, the metadata, the
\* membership and the messages of every other room as they were, and what it
\* publishes is on r's channel.
C34_RoomsIsolated ==
    [][now' = now =>
          \/ UNCHANGED <<ttl, meta, messages, events>>
          \/ \E c \in Clients :
                LET r == IF pc[c] = "idle" THEN req'[c].roomId ELSE req[c].roomId
                IN /\ pc'[c] # pc[c] \/ req'[c] # req[c]
                   /\ r \in RoomIds
                   /\ OthersUnchanged(r)
                   /\ PublishesOnlyOn(r)]_vars

\* C34 witness: two rooms exist, one of them untouched since its creation,
\* while a member of the other has posted a message that is stored and was
\* published on that room's channel.
C34_Witness ==
    \E r \in RoomIds : \E q \in RoomIds \ {r} :
        /\ MetaExists(r) /\ MetaExists(q)
        /\ Len(messages[r]) = 1
        /\ \E i \in 1..Len(events) : events[i].type = "chat.message" /\ events[i].room = r
        /\ meta[q].connected = <<>> /\ messages[q] = <<>>
        /\ \A i \in 1..Len(events) : events[i].room # q

====
